---------------------------- MODULE Spec2Model ----------------------------
(***************************************************************************)
(* Model of the resilient request orchestrator and the score transformer   *)
(* of the pineapple sweetness client (class ApiService, src/App.js), with  *)
(* the error normalisation of src/utils/errorHandler.ts and the constants  *)
(* of src/config/apiConfig.ts.                                             *)
(*                                                                         *)
(* One behaviour is the life of the ApiService singleton: an optional      *)
(* explicit initialize(), then one analyzePineapple invocation followed    *)
(* from await point to await point.  The server, the storage and the local *)
(* database are the environment: every answer they can give is an input    *)
(* chosen with \E.                                                         *)
(*                                                                         *)
(* Specifications.  Spec: one invocation, as above; LiveSpec: the same     *)
(* with every awaited promise settling.  SpecOverlap: two calls on the     *)
(* shared singleton interleaved at their await points.  SpecScore: the     *)
(* functions of the score transformer applied to drawn arguments.          *)
(* SpecConfig: updateConfig and getConfig.  SpecHealth: one checkHealth    *)
(* call.  SpecHybrid: HybridAnalysisService.analyzePineapple over the      *)
(* invocation of Spec.  SpecUploader: the PineappleUploader component.     *)
(*                                                                         *)
(* Conventions.  A nullable value is a sequence: <<>> is null, <<v>> is v. *)
(* Probabilities and confidences are integers in hundredths.  An error     *)
(* message is a record [text, inner, num]: its template, the text of a     *)
(* message spliced into it, and a number spliced into it; the substring    *)
(* tests of the code are decided by TextHas on the template texts.         *)
(***************************************************************************)
EXTENDS Integers, Sequences, FiniteSets, TLC

(***************************************************************************)
(* Constants of src/config/apiConfig.ts                                    *)
(***************************************************************************)
REQUEST_TIMEOUT == 30000
UPLOAD_TIMEOUT == 120000
TEST_TIMEOUT == 45000
WARMUP_TIMEOUT == 90000
PROGRESSIVE_TIMEOUT == TRUE
MAX_RETRIES == 5
RETRY_DELAY == 2000
PROGRESSIVE_DELAY == TRUE
MAX_RETRY_DELAY == 10000

\* warmUpServer: const checkInterval = 2000
checkInterval == 2000
\* analyzePineapple: 30000 + (attempt * 15000)
ProgressiveBase == 30000
ProgressiveStep == 15000

Null == <<>>
Some(v) == <<v>>
IsNull(o) == o = <<>>
Val(o) == o[1]

Min(a, b) == IF a <= b THEN a ELSE b

(***************************************************************************)
(* Inputs: what the environment can answer.                                *)
(***************************************************************************)
\* HTTP statuses the server answers with (success, the two transient ones,
\* the ones handleApiError and warmUpServer name, and two other failures).
Statuses == {200, 400, 404, 413, 415, 422, 500, 502, 503}

\* Timeouts a previous session can have left in storage through updateConfig
\* (the repository's own test saves the default 30000 back; nothing validates
\* the value).
SavedTimeouts == {30000, 150000}

\* Wall-clock time one fetch of the warm-up takes when it is answered, in ms.
FetchDurations == {1000, 20000}

Msg(text, inner, num) == [text |-> text, inner |-> inner, num |-> num]

\* The substrings, among those the code searches for, that a message
\* template contains.  (The HTTP reason phrase spliced into "Backend error: "
\* is a standard phrase or empty; none contains any of them, the search being
\* case sensitive.)
TextHas(text) ==
  CASE text = "Aborted" -> {"Aborted"}
    [] text = "Network request failed" -> {"Network request failed"}
    [] text = "Request timeout after ${n}ms" -> {"timeout"}
    [] text = "JSON Parse error: Unexpected token" -> {"JSON"}
    [] OTHER -> {}

\* String.prototype.includes on a message
Includes(m, needle) == needle \in (TextHas(m.text) \cup TextHas(m.inner))

MkError(name, message, statusCode) ==
  [name |-> name, message |-> message, statusCode |-> statusCode]

\* new NetworkError(message, code)
NetworkError(message) == MkError("NetworkError", message, 0)
\* new BackendError(message, code, statusCode)
BackendError(message, statusCode) == MkError("BackendError", message, statusCode)

\* What fetch can throw: the abort of the timeout controller, React Native's
\* generic network failure, another error, an error with an empty message.
AbortErr == MkError("AbortError", Msg("Aborted", "", 0), 0)
NetFailErr == MkError("TypeError", Msg("Network request failed", "", 0), 0)
OtherErr == MkError("TypeError", Msg("Unsupported BodyInit type", "", 0), 0)
EmptyErr == MkError("Error", Msg("", "", 0), 0)
FetchErrors == {AbortErr, NetFailErr, OtherErr, EmptyErr}

Response(status) == [kind |-> "response", status |-> status, err |-> EmptyErr]
Thrown(e) == [kind |-> "throw", status |-> 0, err |-> e]
FetchResults == {Response(s) : s \in Statuses} \cup {Thrown(e) : e \in FetchErrors}

\* Response.ok
ResponseOk(status) == status >= 200 /\ status <= 299


(***************************************************************************)
(* handleApiError (src/utils/errorHandler.ts): the first matching rule     *)
(* decides the code and the user-facing message.                           *)
(***************************************************************************)
ApiError(code, message) == [code |-> code, message |-> message]

\* switch (error.statusCode) of the BackendError rule
BackendErrorCase(error) ==
  CASE error.statusCode = 400 ->
         ApiError("BAD_REQUEST", Msg("Invalid request. Please check your image and try again.", "", 0))
    [] error.statusCode = 413 ->
         ApiError("FILE_TOO_LARGE", Msg("Image file is too large. Please use an image smaller than 10MB.", "", 0))
    [] error.statusCode = 415 ->
         ApiError("UNSUPPORTED_FORMAT", Msg("Unsupported image format. Please use JPG, PNG, or WebP.", "", 0))
    [] error.statusCode = 500 ->
         ApiError("SERVER_ERROR", Msg("Server error occurred during analysis. Please try again.", "", 0))
    [] OTHER ->
         ApiError("BACKEND_ERROR",
                  Msg("Server error (${statusCode}): ${message}", error.message.text, error.statusCode))

handleApiError(error) ==
  IF Includes(error.message, "timeout")
    THEN ApiError("TIMEOUT",
                  Msg("Request timed out. Please check your internet connection and try again.", "", 0))
  ELSE IF Includes(error.message, "Network request failed") \/ Includes(error.message, "fetch")
    THEN ApiError("NETWORK_FAILED",
                  Msg("Unable to connect to the server. Please check that the backend is running.", "", 0))
  ELSE IF error.name = "BackendError"
    THEN BackendErrorCase(error)
  ELSE IF Includes(error.message, "JSON")
    THEN ApiError("INVALID_RESPONSE",
                  Msg("Received invalid response from server. Please try again.", "", 0))
  ELSE IF Includes(error.message, "model") \/ Includes(error.message, "analysis")
    THEN ApiError("ANALYSIS_ERROR",
                  Msg("Failed to analyze image. The AI model may be unavailable.", "", 0))
  ELSE ApiError("UNKNOWN_ERROR",
                IF error.message.text = ""
                  THEN Msg("An unexpected error occurred. Please try again.", "", 0)
                  ELSE error.message)

(***************************************************************************)
(* Score transformer (ApiService, src/App.js)                              *)
(***************************************************************************)
\* probabilities.X || 0
OrZero(o) == IF IsNull(o) THEN 0 ELSE Val(o)

\* Math.round of n/100 for n >= 0: halves round up
RoundHundredths(n) == (n + 50) \div 100

\* String.prototype.toLowerCase on the class labels
toLowerCase(s) ==
  CASE s = "High" -> "high"
    [] s = "Medium" -> "medium"
    [] s = "Low" -> "low"
    [] OTHER -> s

\* Variants of convertClassToSweetness: without the Low term; with the class
\* label taking precedence over the probabilities; with the lookup only.
convertClassToSweetnessNoLow(prediction, probabilities) ==
  IF ~IsNull(probabilities)
    THEN RoundHundredths(OrZero(Val(probabilities).High) * 95
                         + OrZero(Val(probabilities).Medium) * 65)
    ELSE 50

convertClassToSweetnessLookupOnly(prediction, probabilities) ==
  CASE toLowerCase(prediction) = "high" -> 85
    [] toLowerCase(prediction) = "medium" -> 65
    [] toLowerCase(prediction) = "low" -> 35
    [] OTHER -> 50

convertClassToSweetnessLabelFirst(prediction, probabilities) ==
  IF toLowerCase(prediction) \in {"high", "medium", "low"} \/ IsNull(probabilities)
    THEN convertClassToSweetnessLookupOnly(prediction, probabilities)
    ELSE RoundHundredths(OrZero(Val(probabilities).High) * 95
                         + OrZero(Val(probabilities).Medium) * 65
                         + OrZero(Val(probabilities).Low) * 25)

convertClassToSweetness(prediction, probabilities) ==
  IF ~IsNull(probabilities)
    THEN LET p == Val(probabilities)
             high == OrZero(p.High) * 95
             medium == OrZero(p.Medium) * 65
             low == OrZero(p.Low) * 25
         IN RoundHundredths(high + medium + low)
    ELSE CASE toLowerCase(prediction) = "high" -> 85
           [] toLowerCase(prediction) = "medium" -> 65
           [] toLowerCase(prediction) = "low" -> 35
           [] OTHER -> 50

getSweetnessCategory(sweetness) ==
  IF sweetness >= 80 THEN "High Sweetness"
  ELSE IF sweetness >= 60 THEN "Medium Sweetness"
  ELSE IF sweetness >= 40 THEN "Low Sweetness"
  ELSE "Very Low Sweetness"

\* getDisplayTitle with the cut points of the category
getDisplayTitleCategoryCuts(sweetness) ==
  IF sweetness >= 80 THEN "High"
  ELSE IF sweetness >= 60 THEN "Medium"
  ELSE IF sweetness >= 40 THEN "Low"
  ELSE "Very Low"

getDisplayTitle(sweetness) ==
  IF sweetness >= 75 THEN "High"
  ELSE IF sweetness >= 60 THEN "Medium"
  ELSE IF sweetness >= 45 THEN "Low"
  ELSE "Very Low"

getColorIndicator(sweetness) ==
  IF sweetness >= 75 THEN "#22C55E"
  ELSE IF sweetness >= 60 THEN "#3B82F6"
  ELSE IF sweetness >= 45 THEN "#F59E0B"
  ELSE "#6B7280"

getRecommendation(sweetness) ==
  IF sweetness >= 75 THEN "Perfect for eating"
  ELSE IF sweetness >= 60 THEN "Great for most uses"
  ELSE IF sweetness >= 45 THEN "Best for cooking"
  ELSE "Wait a few days"

\* boundingBox of the first detection, undefined without detections
BoundingBox(detections) ==
  IF Len(detections) > 0
    THEN LET bbox == detections[1]
         IN Some([x |-> bbox[1], y |-> bbox[2],
                  width |-> bbox[3] - bbox[1], height |-> bbox[4] - bbox[2]])
    ELSE Null

\* JavaScript truthiness of data.prediction (string | null)
Truthy(prediction) == ~IsNull(prediction) /\ Val(prediction) # ""

\* The guard of "if (data.is_pineapple && data.prediction && data.confidence !== null)"
HasSweetness(data) ==
  data.is_pineapple /\ Truthy(data.prediction) /\ ~IsNull(data.confidence)

SweetnessOf(data, processingTime) ==
  LET sweetnessPercentage ==
        convertClassToSweetness(Val(data.prediction), data.probabilities)
  IN [sweetness |-> sweetnessPercentage,
      confidence |-> Val(data.confidence),
      category |-> getSweetnessCategory(sweetnessPercentage),
      sweetnessClass |-> Val(data.prediction),
      displayTitle |-> getDisplayTitle(sweetnessPercentage),
      colorIndicator |-> getColorIndicator(sweetnessPercentage),
      recommendation |-> getRecommendation(sweetnessPercentage),
      characteristics |-> <<sweetnessPercentage, Val(data.confidence)>>,
      qualityMetrics |->
        [ripeness |-> IF sweetnessPercentage >= 70 THEN "Ready"
                      ELSE IF sweetnessPercentage >= 50 THEN "Good" ELSE "Wait",
         eatingExperience |-> IF sweetnessPercentage >= 70 THEN "Great"
                              ELSE IF sweetnessPercentage >= 50 THEN "Good" ELSE "OK",
         bestUse |-> IF sweetnessPercentage >= 60 THEN "Eat fresh" ELSE "Cook with it"],
      method |-> "backend_analysis",
      processingTime |-> processingTime]

transformBackendResponse(data, processingTime) ==
  [isPineapple |-> data.is_pineapple,
   detectionConfidence |-> data.detection_confidence,
   boundingBox |-> BoundingBox(data.detections),
   sweetness |-> IF HasSweetness(data) THEN Some(SweetnessOf(data, processingTime)) ELSE Null,
   status |-> IF data.is_pineapple THEN "success" ELSE "no_pineapple",
   message |-> IF data.is_pineapple
                 THEN Msg("Analysis completed successfully", "", 0)
                 ELSE Msg("No pineapple detected in the image", "", 0),
   processingTime |-> processingTime]

\* The outcome the outer catch of analyzePineapple returns
ErrorOutcome(error, processingTime) ==
  [isPineapple |-> FALSE,
   detectionConfidence |-> 0,
   boundingBox |-> Null,
   sweetness |-> Null,
   status |-> "error",
   message |-> handleApiError(error).message,
   processingTime |-> processingTime]

\* Bodies of a 2xx /predict response that parse to an object
\* (BackendPredictionResponse; only the fields the client reads).
Probabilities ==
  {Null,
   Some([High |-> Some(70), Medium |-> Some(25), Low |-> Some(5)])}

Payloads ==
  [is_pineapple : BOOLEAN,
   detection_confidence : {90},
   detections : {<<>>, << <<10, 20, 110, 220>> >>},
   prediction : {Null, Some("High")},
   confidence : {Null, Some(87)},
   probabilities : Probabilities]


(***************************************************************************)
(* State                                                                   *)
(***************************************************************************)
VARIABLES
  config,          \* this.config: [baseUrl, timeout]
  defaults,        \* the module-level DEFAULT_CONFIG object
  aliased,         \* this.config is the DEFAULT_CONFIG object itself
  isInitialized,   \* this.isInitialized
  storage,         \* AsyncStorage item API_CONFIG_KEY: Null or Some(config)
  pc,              \* the await point analyzePineapple is suspended at
  attempt,         \* loop variable of the retry loop
  originalTimeout, \* const originalTimeout of analyzePineapple
  lastResponse,    \* Null or Some(status)
  lastError,       \* Null or Some(error)
  respHist,        \* what fetch gave to each POST /predict of the retry loop
  armed,           \* the delay each abort timer of makeRequest was armed with
  slept,           \* the retry delays slept
  predictPosts,    \* POST /predict requests issued by the retry loop
  connectivity,    \* Null or Some(what fetch gave to checkNetworkConnectivity)
  isConnected,     \* Null or Some(what the quick probe returned)
  warmups,         \* calls of warmUpServer
  warmupPosts,     \* synthetic POST /predict requests of warmUpServer
  warmedUp,        \* Null or Some(what warmUpServer returned)
  testPassed,      \* locals of warmUpServer
  healthPassed,
  predictionReady,
  elapsed,         \* Date.now() - startTime of warmUpServer
  body,            \* Null or Some(what response.json() gave)
  saveCalls,       \* calls of databaseService.saveAnalysis
  settled,         \* "pending", "resolved" or "rejected": the returned promise
  outcome,         \* Null or Some(the value the promise resolved with)
  configBefore,    \* this.config as it was when the invocation(s) started
  calls,           \* overlapping invocations: call id -> its frame
  returned,        \* Null or Some(the object getConfig() returned)
  lastOp,          \* the configuration operation performed last
  input,           \* the argument a function of the transformer is applied to
  result,          \* Null or Some(what it returned)
  hybrid,          \* HybridAnalysisService and its analyzePineapple call
  uploader         \* the PineappleUploader component and the tap being handled

svc == <<config, defaults, aliased, isInitialized, storage>>
loopv == <<attempt, originalTimeout, lastResponse, lastError, respHist, slept>>
sent == <<armed, predictPosts>>
pre == <<connectivity, isConnected>>
wu == <<warmups, warmupPosts, warmedUp, testPassed, healthPassed, predictionReady, elapsed>>
fin == <<body, saveCalls, settled, outcome>>
\* state of the other specifications of this module
app == <<hybrid, uploader>>
others == <<calls, returned, lastOp, input, result, app>>
vars == <<svc, pc, loopv, sent, pre, wu, fin, configBefore, others>>

BASE_URL == "https://matts-12-backend-pineapple-server.hf.space"

\* const DEFAULT_CONFIG
DEFAULT_CONFIG == [baseUrl |-> BASE_URL, timeout |-> REQUEST_TIMEOUT]

\* No invocation of analyzePineapple has started
InitCall ==
  /\ pc = "idle"
  /\ attempt = 0
  /\ originalTimeout = 0
  /\ lastResponse = Null
  /\ lastError = Null
  /\ respHist = <<>>
  /\ armed = <<>>
  /\ slept = <<>>
  /\ predictPosts = 0
  /\ connectivity = Null
  /\ isConnected = Null
  /\ warmups = 0
  /\ warmupPosts = 0
  /\ warmedUp = Null
  /\ testPassed = FALSE
  /\ healthPassed = FALSE
  /\ predictionReady = FALSE
  /\ elapsed = 0
  /\ body = Null
  /\ saveCalls = 0
  /\ settled = "pending"
  /\ outcome = Null

\* The other specifications of this module are not running
\* The hybrid service and the uploader component are not in use
InitApp ==
  /\ hybrid = [isInitialized |-> FALSE, pc |-> "off", backendResult |-> Null,
               localCalls |-> 0, result |-> Null]
  /\ uploader = [isBackendReady |-> FALSE, mount |-> "off", pc |-> "off",
                 closure |-> FALSE, reconnected |-> Null, analyzed |-> FALSE,
                 result |-> Null, alert |-> Null]

InitOthers ==
  /\ InitApp
  /\ calls = <<>>
  /\ returned = Null
  /\ lastOp = [op |-> "none"]
  /\ input = [kind |-> "none"]
  /\ result = Null

Init ==
  /\ config = DEFAULT_CONFIG
  /\ defaults = DEFAULT_CONFIG
  /\ aliased = TRUE
  /\ isInitialized = FALSE
  /\ storage \in {Null} \cup {Some([baseUrl |-> BASE_URL, timeout |-> t]) : t \in SavedTimeouts}
  /\ configBefore = DEFAULT_CONFIG
  /\ InitCall
  /\ InitOthers

(***************************************************************************)
(* initialize                                                              *)
(***************************************************************************)
\* this.config after initialize(): { ...DEFAULT_CONFIG, ...saved } when the
\* item was read and is there, untouched otherwise.
ConfigAfterInitialize(readOk) ==
  IF readOk /\ ~IsNull(storage) THEN Val(storage) ELSE config

AliasedAfterInitialize(readOk) ==
  IF readOk /\ ~IsNull(storage) THEN FALSE ELSE aliased

\* apiService.initialize() called by the application before the analysis
Initialize(readOk) ==
  /\ pc = "idle"
  /\ config' = ConfigAfterInitialize(readOk)
  /\ aliased' = AliasedAfterInitialize(readOk)
  /\ isInitialized' = TRUE
  /\ UNCHANGED <<defaults, storage, pc, loopv, sent, pre, wu, fin>>
  /\ UNCHANGED <<configBefore, others>>

(***************************************************************************)
(* analyzePineapple                                                        *)
(***************************************************************************)
\* catch (error) of analyzePineapple: the promise resolves with an error outcome
OuterCatchRethrow(error) == [settled |-> "rejected", outcome |-> Null]
OuterCatch(error) == [settled |-> "resolved", outcome |-> Some(ErrorOutcome(error, 0))]

\* Leaving analyzePineapple through its outer catch
Caught(error) ==
  /\ settled' = OuterCatch(error).settled
  /\ outcome' = OuterCatch(error).outcome
  /\ pc' = "done"

\* analyzePineapple is called: it suspends on the fetch of checkNetworkConnectivity
StartAnalyze ==
  /\ pc = "idle"
  /\ pc' = "connectivity"
  /\ configBefore' = config
  /\ UNCHANGED <<svc, loopv, sent, pre, wu, fin>>
  /\ UNCHANGED others

\* checkNetworkConnectivity: what it returns for what its fetch gave
\* (error is "" where the code leaves it undefined)
checkNetworkConnectivityAnyResponse(r) ==
  [connected |-> r.kind = "response", error |-> ""]
checkNetworkConnectivity(r) ==
  IF r.kind = "response"
    THEN IF ResponseOk(r.status)
           THEN [connected |-> TRUE, error |-> ""]
           ELSE [connected |-> FALSE, error |-> "Server responded with status ${status}"]
    ELSE [connected |-> FALSE,
          error |-> r.err.message.text]

\* testConnectivity: the boolean it returns for what its fetch gave
\* (the variant counts only a 2xx response as connected)
testConnectivityOkOnly(r) == r.kind = "response" /\ ResponseOk(r.status)
testConnectivity(r) ==
  IF r.kind = "throw" THEN FALSE
  ELSE IF ResponseOk(r.status) THEN TRUE
  ELSE IF r.status = 502 THEN FALSE
  ELSE r.status < 500

\* progressiveTimeout of attempt a
ProgressiveTimeout(a) ==
  IF PROGRESSIVE_TIMEOUT
    THEN Min(ProgressiveBase + (a * ProgressiveStep), UPLOAD_TIMEOUT)
    ELSE UPLOAD_TIMEOUT

\* retryDelay after failed attempt a (the variant is not progressive)
RetryDelayFlat(a) == RETRY_DELAY
RetryDelay(a) ==
  IF PROGRESSIVE_DELAY
    THEN Min(RETRY_DELAY * a, MAX_RETRY_DELAY)
    ELSE RETRY_DELAY

\* const maxRetries = API_CONFIG.MAX_RETRIES
maxRetriesPlusFirst == MAX_RETRIES + 1
maxRetries == MAX_RETRIES

\* for (...; attempt <= maxRetries; ...)
LoopCond(a) == a <= maxRetries

\* response.status === 500 || response.status === 502
IsTransientAny5xx(status) == status >= 500
IsTransient(status) == status = 500 \/ status = 502

\* isRetryableError of the loop's catch
isRetryableError(error) ==
  \/ Includes(error.message, "timeout")
  \/ Includes(error.message, "Aborted")
  \/ Includes(error.message, "Network request failed")

\* The error makeRequest throws for an error its fetch threw
makeRequestError(error, timeout) ==
  IF error.name = "AbortError"
    THEN NetworkError(Msg("Request timeout after ${n}ms", "", timeout))
  ELSE IF Includes(error.message, "Network request failed")
    THEN NetworkError(Msg("Network connection failed. Please check: ${baseUrl}", "", 0))
  ELSE error

\* this.config.timeout = t, seen through the alias with DEFAULT_CONFIG
SetTimeout(t) ==
  /\ config' = [config EXCEPT !.timeout = t]
  /\ defaults' = IF aliased THEN [defaults EXCEPT !.timeout = t] ELSE defaults

\* One pass through the head of the loop body for attempt a: the progressive
\* timeout is stored, makeRequest is entered and, the service being
\* initialized, arms its timer and issues the POST; otherwise it suspends on
\* initialize() first.
BeginAttempt(a) ==
  /\ attempt' = a
  /\ SetTimeout(ProgressiveTimeout(a))
  /\ IF isInitialized
       THEN /\ armed' = Append(armed, ProgressiveTimeout(a))
            /\ predictPosts' = predictPosts + 1
            /\ pc' = "predict"
       ELSE /\ UNCHANGED sent
            /\ pc' = "mr_init"
  /\ UNCHANGED <<aliased, isInitialized, storage>>

\* The code after the probe and the warm-up, up to the first await of the loop
EnterLoop ==
  /\ originalTimeout' = config.timeout
  /\ BeginAttempt(1)
  /\ UNCHANGED <<lastResponse, lastError, respHist, slept>>

\* checkNetworkConnectivity settles
ConnectivityDone(r) ==
  /\ pc = "connectivity"
  /\ connectivity' = Some(r)
  /\ IF checkNetworkConnectivity(r).connected
       THEN /\ pc' = "probe"
            /\ UNCHANGED <<body, saveCalls, settled, outcome>>
       ELSE /\ Caught(NetworkError(Msg("Network connectivity failed: ${error}",
                                       checkNetworkConnectivity(r).error, 0)))
            /\ UNCHANGED <<body, saveCalls>>
  /\ UNCHANGED <<svc, loopv, sent, isConnected, wu>>
  /\ UNCHANGED <<configBefore, others>>


(***************************************************************************)
(* warmUpServer: the await point reached next from each place of the loop  *)
(* body, given the gates passed so far; "wu_return" leaves the function.   *)
(***************************************************************************)
\* the trailing "if (testPassed && healthPassed && !predictionReady) return true"
\* (the variant has no such return: the iteration always ends in the sleep)
AfterStep3KeepPolling(tp, hp, pr) == "wu_sleep"
AfterStep3(tp, hp, pr) ==
  IF tp /\ hp /\ ~pr THEN "wu_return" ELSE "wu_sleep"

\* "if (testPassed && healthPassed && !predictionReady)" of step 3
AfterStep2(tp, hp, pr) ==
  IF tp /\ hp /\ ~pr THEN "wu_predict" ELSE AfterStep3(tp, hp, pr)

\* "if (testPassed && !healthPassed)" of step 2
\* (the variant requests the health endpoint whether or not step 1 passed)
AfterStep1HealthAlways(tp, hp, pr) ==
  IF ~hp THEN "wu_health" ELSE AfterStep2(tp, hp, pr)
AfterStep1(tp, hp, pr) ==
  IF tp /\ ~hp THEN "wu_health" ELSE AfterStep2(tp, hp, pr)

\* "while (Date.now() - startTime < maxWarmupTime)" and "if (!testPassed)"
LoopHead(tp, hp, pr, el) ==
  IF el < WARMUP_TIMEOUT
    THEN IF ~tp THEN "wu_test" ELSE AfterStep1(tp, hp, pr)
    ELSE "wu_return"

\* Accepted statuses of the synthetic POST
PredictionEndpointReady(r) ==
  r.kind = "response" /\ r.status \in {422, 200, 400}

\* Wall-clock time of one fetch of the warm-up: an abort fires at TEST_TIMEOUT
Duration(r, d) ==
  IF r.kind = "throw" /\ r.err.name = "AbortError" THEN TEST_TIMEOUT ELSE d

\* Date.now() - startTime after dt more milliseconds have passed
ElapsedFrozen(el, dt) == el
Elapsed(el, dt) == el + dt

\* What analyzePineapple does with what warmUpServer returned: it logs and
\* goes on to the upload in both branches of "if (!warmedUp)"
ProceedOnlyIfWarm(ret) == ret
ProceedAfterWarmUp(ret) == TRUE

\* Going on to the next await point of warmUpServer at time el, or returning
\* ret to analyzePineapple, which goes on to the retry loop whatever ret is
\* (the clock of the warm-up is dropped with its frame).
WuContinue(next, ret, el) ==
  /\ warmupPosts' = IF next = "wu_predict" THEN warmupPosts + 1 ELSE warmupPosts
  /\ elapsed' = IF next = "wu_return" THEN 0 ELSE el
  /\ IF next = "wu_return"
       THEN /\ warmedUp' = Some(ret)
            /\ IF ProceedAfterWarmUp(ret)
                 THEN /\ EnterLoop
                      /\ UNCHANGED fin
                 ELSE /\ Caught(NetworkError(Msg("Server warm-up failed", "", 0)))
                      /\ UNCHANGED <<svc, loopv, sent, body, saveCalls>>
       ELSE /\ pc' = next
            /\ UNCHANGED <<svc, loopv, sent, warmedUp, fin>>

\* The quick probe of analyzePineapple settles
QuickProbe(r) ==
  /\ pc = "probe"
  /\ isConnected' = Some(testConnectivity(r))
  /\ IF testConnectivity(r)
       THEN /\ EnterLoop
            /\ UNCHANGED <<wu, fin>>
       ELSE /\ warmups' = warmups + 1
            /\ testPassed' = FALSE
            /\ healthPassed' = FALSE
            /\ predictionReady' = FALSE
            /\ WuContinue(LoopHead(FALSE, FALSE, FALSE, 0), FALSE, 0)
  /\ UNCHANGED connectivity
  /\ UNCHANGED <<configBefore, others>>

\* Step 1 of the warm-up loop: testConnectivity settles
WuTest(r, d) ==
  /\ pc = "wu_test"
  /\ testPassed' = testConnectivity(r)
  /\ WuContinue(AfterStep1(testPassed', healthPassed, predictionReady), TRUE,
                Elapsed(elapsed, Duration(r, d)))
  /\ UNCHANGED <<warmups, healthPassed, predictionReady, pre>>
  /\ UNCHANGED <<configBefore, others>>

\* Step 2: the health fetch settles
WuHealth(r, d) ==
  /\ pc = "wu_health"
  /\ healthPassed' = (r.kind = "response" /\ ResponseOk(r.status))
  /\ WuContinue(AfterStep2(testPassed, healthPassed', predictionReady), TRUE,
                Elapsed(elapsed, Duration(r, d)))
  /\ UNCHANGED <<warmups, testPassed, predictionReady, pre>>
  /\ UNCHANGED <<configBefore, others>>

\* Step 3: the synthetic POST /predict settles
WuPredict(r, d) ==
  /\ pc = "wu_predict"
  /\ predictionReady' = PredictionEndpointReady(r)
  /\ WuContinue(IF PredictionEndpointReady(r)
                  THEN "wu_return"
                  ELSE AfterStep3(testPassed, healthPassed, FALSE), TRUE,
                Elapsed(elapsed, Duration(r, d)))
  /\ UNCHANGED <<warmups, testPassed, healthPassed, pre>>
  /\ UNCHANGED <<configBefore, others>>

\* The sleep of checkInterval ends: back to the head of the loop
WuSleep ==
  /\ pc = "wu_sleep"
  /\ WuContinue(LoopHead(testPassed, healthPassed, predictionReady,
                         Elapsed(elapsed, checkInterval)),
                testPassed \/ healthPassed, Elapsed(elapsed, checkInterval))
  /\ UNCHANGED <<warmups, testPassed, healthPassed, predictionReady, pre>>
  /\ UNCHANGED <<configBefore, others>>


(***************************************************************************)
(* The retry loop                                                          *)
(***************************************************************************)
\* makeRequest of an attempt resumes from its lazy initialize(): the timer is
\* armed with this.config.timeout as it is now, and the POST is issued.
MakeRequestInit(readOk) ==
  /\ pc = "mr_init"
  /\ config' = ConfigAfterInitialize(readOk)
  /\ aliased' = AliasedAfterInitialize(readOk)
  /\ isInitialized' = TRUE
  /\ armed' = Append(armed, config'.timeout)
  /\ predictPosts' = predictPosts + 1
  /\ pc' = "predict"
  /\ UNCHANGED <<defaults, storage, loopv, pre, wu, fin>>
  /\ UNCHANGED <<configBefore, others>>

\* catch (error) inside the loop
InnerCatch(error, a) ==
  IF a < maxRetries /\ isRetryableError(error)
    THEN [next |-> "retry", err |-> Some(error)]
    ELSE [next |-> "throw", err |-> Some(error)]

\* LoopStep without the break: a 2xx response before the last attempt goes on
\* to the next iteration.
LoopStepNoBreak(r, a, timeout) ==
  IF r.kind = "response"
    THEN IF ResponseOk(r.status) /\ a >= maxRetries
           THEN [next |-> "break", err |-> Null]
         ELSE IF (ResponseOk(r.status) \/ IsTransient(r.status)) /\ a < maxRetries
           THEN [next |-> "retry", err |-> Null]
         ELSE InnerCatch(BackendError(Msg("Backend error: ${statusText}", "", 0), r.status), a)
    ELSE InnerCatch(makeRequestError(r.err, timeout), a)

\* What the loop body does with what makeRequest's fetch gave on attempt a:
\* break, sleep and retry, or throw to the outer catch.
LoopStep(r, a, timeout) ==
  IF r.kind = "response"
    THEN IF ResponseOk(r.status)
           THEN [next |-> "break", err |-> Null]
         ELSE IF IsTransient(r.status) /\ a < maxRetries
           THEN [next |-> "retry", err |-> Null]
         ELSE InnerCatch(BackendError(Msg("Backend error: ${statusText}", "", 0), r.status), a)
    ELSE InnerCatch(makeRequestError(r.err, timeout), a)

\* throw new BackendError(...) after the loop, all attempts having failed
ExhaustedError ==
  BackendError(Msg("Backend server is not available. Please check that the server is running.", "", 0),
               IF IsNull(lastResponse) THEN 500 ELSE Val(lastResponse))

\* The POST /predict of the current attempt settles
PredictDone(r) ==
  /\ pc = "predict"
  /\ respHist' = Append(respHist, r)
  /\ lastResponse' = IF r.kind = "response" THEN Some(r.status) ELSE lastResponse
  /\ LET step == LoopStep(r, attempt, config.timeout)
     IN /\ lastError' = IF IsNull(step.err) THEN lastError ELSE step.err
        /\ CASE step.next = "break" ->
                  /\ SetTimeout(originalTimeout)
                  /\ pc' = "parse"
                  /\ UNCHANGED <<slept, settled, outcome>>
             [] step.next = "retry" ->
                  /\ slept' = Append(slept, RetryDelay(attempt))
                  /\ pc' = "sleep"
                  /\ UNCHANGED <<config, defaults, settled, outcome>>
             [] step.next = "throw" ->
                  /\ Caught(Val(step.err))
                  /\ UNCHANGED <<config, defaults, slept>>
  /\ UNCHANGED <<aliased, isInitialized, storage, attempt, originalTimeout,
                 sent, pre, wu, body, saveCalls>>
  /\ UNCHANGED <<configBefore, others>>

\* The retry delay ends: attempt++ and the loop condition; past the loop the
\* timeout is restored and, no response being ok, the exhausted error thrown.
SleepDone ==
  /\ pc = "sleep"
  /\ IF LoopCond(attempt + 1)
       THEN /\ BeginAttempt(attempt + 1)
            /\ UNCHANGED <<settled, outcome>>
       ELSE /\ attempt' = attempt + 1
            /\ SetTimeout(originalTimeout)
            /\ UNCHANGED <<aliased, isInitialized, storage, sent>>
            /\ IF ~IsNull(lastResponse) /\ ResponseOk(Val(lastResponse))
                 THEN /\ pc' = "parse"
                      /\ UNCHANGED <<settled, outcome>>
                 ELSE Caught(ExhaustedError)
  /\ UNCHANGED <<originalTimeout, lastResponse, lastError, respHist, slept,
                 pre, wu, body, saveCalls>>
  /\ UNCHANGED <<configBefore, others>>

\* What response.json() can give: a syntax error, a JSON value that is no
\* object (null), or a payload.
Bodies ==
  {[kind |-> "unparsable", data |-> Null], [kind |-> "null", data |-> Null]}
    \cup {[kind |-> "object", data |-> Some(p)] : p \in Payloads}

JsonError == MkError("SyntaxError", Msg("JSON Parse error: Unexpected token", "", 0), 0)
NullBodyError == MkError("TypeError", Msg("Cannot read property 'is_pineapple' of null", "", 0), 0)

\* response.json() settles; the payload is transformed and the save started
ParseDone(b) ==
  /\ pc = "parse"
  /\ body' = Some(b)
  /\ CASE b.kind = "unparsable" -> Caught(JsonError)
       [] b.kind = "null" -> Caught(NullBodyError)
       [] b.kind = "object" ->
            /\ outcome' = Some(transformBackendResponse(Val(b.data), 0))
            /\ pc' = "save"
            /\ UNCHANGED settled
  /\ UNCHANGED <<svc, loopv, sent, pre, wu, saveCalls>>
  /\ UNCHANGED <<configBefore, others>>

\* saveAnalysisToDatabase settling, were its rejection not caught: it would
\* reach the outer catch
SaveDoneFatal(saved) ==
  /\ pc = "save"
  /\ saveCalls' = saveCalls + 1
  /\ IF saved
       THEN /\ settled' = "resolved"
            /\ pc' = "done"
            /\ UNCHANGED outcome
       ELSE Caught(MkError("Error", Msg("database is locked", "", 0), 0))
  /\ UNCHANGED <<svc, loopv, sent, pre, wu, body>>
  /\ UNCHANGED <<configBefore, others>>

\* saveAnalysisToDatabase settles; a rejection is logged and dropped
SaveDone(saved) ==
  /\ pc = "save"
  /\ saveCalls' = saveCalls + 1
  /\ settled' = "resolved"
  /\ pc' = "done"
  /\ UNCHANGED <<svc, loopv, sent, pre, wu, body, outcome>>
  /\ UNCHANGED <<configBefore, others>>

\* What the environment does to a running invocation: a fetch, a storage
\* read, a body read or a database save settles, a sleep ends.
Respond ==
  \/ \E r \in FetchResults : ConnectivityDone(r)
  \/ \E r \in FetchResults : QuickProbe(r)
  \/ \E r \in FetchResults, d \in FetchDurations : WuTest(r, d)
  \/ \E r \in FetchResults, d \in FetchDurations : WuHealth(r, d)
  \/ \E r \in FetchResults, d \in FetchDurations : WuPredict(r, d)
  \/ WuSleep
  \/ \E readOk \in BOOLEAN : MakeRequestInit(readOk)
  \/ \E r \in FetchResults : PredictDone(r)
  \/ SleepDone
  \/ \E b \in Bodies : ParseDone(b)
  \/ \E saved \in BOOLEAN : SaveDone(saved)

Next ==
  \/ \E readOk \in BOOLEAN : Initialize(readOk)
  \/ StartAnalyze
  \/ Respond

Spec == Init /\ [][Next]_vars

\* Every awaited promise settles: each fetch responds or is aborted by its
\* timer, each timer fires, each local read or save completes.
LiveSpec == Init /\ [][Next]_vars /\ WF_vars(Respond)


(***************************************************************************)
(* Overlapping invocations.  The singleton is shared: two calls started    *)
(* without awaiting each other (a double tap, or a health check during an  *)
(* analysis) interleave at their await points.  Each call has its own      *)
(* frame (position, attempt, originalTimeout); this.config is shared.      *)
(* The service has been initialized, with nothing saved in storage.        *)
(***************************************************************************)
CallIds == {1, 2}

Frame(kind, p, a, t, how) ==
  [kind |-> kind, pc |-> p, attempt |-> a, originalTimeout |-> t, how |-> how]

\* what the overlapping calls leave alone
ovFrame ==
  <<aliased, isInitialized, storage, pc, loopv, sent, pre, wu, fin,
    configBefore, returned, lastOp, input, result, app>>

InitOverlap ==
  /\ config = DEFAULT_CONFIG
  /\ defaults = DEFAULT_CONFIG
  /\ aliased = TRUE
  /\ isInitialized = TRUE
  /\ storage = Null
  /\ configBefore = DEFAULT_CONFIG
  /\ InitApp
  /\ InitCall
  /\ calls \in {<<Frame("analyzePineapple", "idle", 0, 0, ""), Frame(kind, "idle", 0, 0, "")>> :
                  kind \in {"analyzePineapple", "checkHealth"}}
  /\ returned = Null
  /\ lastOp = [op |-> "none"]
  /\ input = [kind |-> "none"]
  /\ result = Null

\* Call c moves to await point p (how it ended, when p is "done")
Goto(c, p, how) == calls' = [calls EXCEPT ![c].pc = p, ![c].how = how]

\* analyzePineapple is called: it suspends on checkNetworkConnectivity
OvStartAnalyze(c) ==
  /\ calls[c].kind = "analyzePineapple"
  /\ calls[c].pc = "idle"
  /\ Goto(c, "connectivity", "")
  /\ UNCHANGED <<config, defaults, ovFrame>>

\* checkNetworkConnectivity of call c settles
OvConnectivityDone(c, r) ==
  /\ calls[c].pc = "connectivity"
  /\ IF checkNetworkConnectivity(r).connected
       THEN Goto(c, "probe", "")
       ELSE Goto(c, "done", "error")
  /\ UNCHANGED <<config, defaults, ovFrame>>

\* The probe of call c (and the warm-up after a failed probe, which reads and
\* writes nothing shared) settles: originalTimeout is read, the progressive
\* timeout of attempt 1 stored, and the first POST issued.
OvProbeDone(c) ==
  /\ calls[c].pc = "probe"
  /\ calls' = [calls EXCEPT ![c] = Frame("analyzePineapple", "predict", 1, config.timeout, "")]
  /\ SetTimeout(ProgressiveTimeout(1))
  /\ UNCHANGED ovFrame

\* The POST /predict of the current attempt of call c settles
OvPredictDone(c, r) ==
  /\ calls[c].pc = "predict"
  /\ LET step == LoopStep(r, calls[c].attempt, config.timeout)
     IN CASE step.next = "break" ->
               /\ SetTimeout(calls[c].originalTimeout)
               /\ Goto(c, "parse", "")
          [] step.next = "retry" ->
               /\ Goto(c, "sleep", "")
               /\ UNCHANGED <<config, defaults>>
          [] step.next = "throw" ->
               /\ Goto(c, "done", "error")
               /\ UNCHANGED <<config, defaults>>
  /\ UNCHANGED ovFrame

\* The retry delay of call c ends
OvSleepDone(c) ==
  /\ calls[c].pc = "sleep"
  /\ IF LoopCond(calls[c].attempt + 1)
       THEN /\ calls' = [calls EXCEPT ![c].attempt = @ + 1, ![c].pc = "predict"]
            /\ SetTimeout(ProgressiveTimeout(calls[c].attempt + 1))
       ELSE /\ Goto(c, "done", "error")
            /\ SetTimeout(calls[c].originalTimeout)
  /\ UNCHANGED ovFrame

\* response.json() and the database save of call c settle
OvParseDone(c, parsed) ==
  /\ calls[c].pc = "parse"
  /\ Goto(c, "done", IF parsed THEN "ok" ELSE "error")
  /\ UNCHANGED <<config, defaults, ovFrame>>

\* checkHealth is called: the timeout is saved and replaced by TEST_TIMEOUT,
\* and makeRequest issues GET /health, after its lazy initialize() when the
\* service is not initialized
OvStartHealth(c) ==
  /\ calls[c].kind = "checkHealth"
  /\ calls[c].pc = "idle"
  /\ calls' = [calls EXCEPT ![c] = Frame("checkHealth",
                                          IF isInitialized THEN "health" ELSE "health_init",
                                          0, config.timeout, "")]
  /\ SetTimeout(TEST_TIMEOUT)
  /\ UNCHANGED ovFrame

\* The lazy initialize() of makeRequest settles, and GET /health is issued
OvHealthInit(c, readOk) ==
  /\ calls[c].pc = "health_init"
  /\ config' = ConfigAfterInitialize(readOk)
  /\ aliased' = AliasedAfterInitialize(readOk)
  /\ isInitialized' = TRUE
  /\ Goto(c, "health", "")
  /\ UNCHANGED <<defaults, storage, pc, loopv, sent, pre, wu, fin,
                 configBefore, returned, lastOp, input, result, app>>

\* GET /health settling, were the timeout not restored in a finally block
OvHealthDoneNoFinally(c, r) ==
  /\ calls[c].pc = "health"
  /\ IF r.kind = "response" /\ ResponseOk(r.status)
       THEN Goto(c, "health_json", "")
       ELSE Goto(c, "done", "null")
  /\ UNCHANGED <<config, defaults, ovFrame>>

\* GET /health settles: a 2xx response is parsed next; otherwise checkHealth
\* returns null through its finally block
OvHealthDone(c, r) ==
  /\ calls[c].pc = "health"
  /\ IF r.kind = "response" /\ ResponseOk(r.status)
       THEN /\ Goto(c, "health_json", "")
            /\ UNCHANGED <<config, defaults>>
       ELSE /\ Goto(c, "done", "null")
            /\ SetTimeout(calls[c].originalTimeout)
  /\ UNCHANGED ovFrame

\* response.json() of checkHealth settles; finally restores the timeout
OvHealthJsonDone(c, parsed) ==
  /\ calls[c].pc = "health_json"
  /\ Goto(c, "done", IF parsed THEN "ok" ELSE "null")
  /\ SetTimeout(calls[c].originalTimeout)
  /\ UNCHANGED ovFrame

NextOverlap ==
  \/ \E c \in CallIds : OvStartAnalyze(c)
  \/ \E c \in CallIds, r \in FetchResults : OvConnectivityDone(c, r)
  \/ \E c \in CallIds : OvProbeDone(c)
  \/ \E c \in CallIds, r \in FetchResults : OvPredictDone(c, r)
  \/ \E c \in CallIds : OvSleepDone(c)
  \/ \E c \in CallIds, parsed \in BOOLEAN : OvParseDone(c, parsed)
  \/ \E c \in CallIds : OvStartHealth(c)
  \/ \E c \in CallIds, r \in FetchResults : OvHealthDone(c, r)
  \/ \E c \in CallIds, parsed \in BOOLEAN : OvHealthJsonDone(c, parsed)

SpecOverlap == InitOverlap /\ [][NextOverlap]_vars

(***************************************************************************)
(* One checkHealth call on the service in any state an application can     *)
(* leave it in: initialized or not, with or without a saved configuration, *)
(* with the default timeout or one an earlier analysis left behind.        *)
(***************************************************************************)
\* config.timeout values: the default and the progressive timeouts
LeftTimeouts == {REQUEST_TIMEOUT} \cup {ProgressiveTimeout(a) : a \in 1..MAX_RETRIES}

InitHealth ==
  /\ storage \in {Null} \cup {Some([baseUrl |-> BASE_URL, timeout |-> t]) : t \in SavedTimeouts}
  /\ isInitialized \in BOOLEAN
  /\ aliased = ~(isInitialized /\ ~IsNull(storage))
  /\ \E t \in LeftTimeouts : config = [baseUrl |-> BASE_URL, timeout |-> t]
  /\ defaults = IF aliased THEN config ELSE DEFAULT_CONFIG
  /\ configBefore = config
  /\ InitApp
  /\ InitCall
  /\ calls = <<Frame("checkHealth", "idle", 0, 0, "")>>
  /\ returned = Null
  /\ lastOp = [op |-> "none"]
  /\ input = [kind |-> "none"]
  /\ result = Null

NextHealth ==
  \/ \E c \in DOMAIN calls : OvStartHealth(c)
  \/ \E c \in DOMAIN calls, readOk \in BOOLEAN : OvHealthInit(c, readOk)
  \/ \E c \in DOMAIN calls, r \in FetchResults : OvHealthDone(c, r)
  \/ \E c \in DOMAIN calls, parsed \in BOOLEAN : OvHealthJsonDone(c, parsed)

SpecHealth == InitHealth /\ [][NextHealth]_vars


(***************************************************************************)
(* The score transformer as pure functions: an argument is drawn, and the  *)
(* function it is meant for is applied to it.                              *)
(***************************************************************************)
\* Class probabilities in hundredths: the values of the documented examples,
\* the extremes and the tenths in between
ProbValues == {0, 5, 10, 20, 25, 30, 40, 50, 60, 70, 75, 80, 90, 100}

\* { High?: number; Medium?: number; Low?: number }, each class present or not
ProbabilityObjects ==
  [High : {Null} \cup {Some(v) : v \in ProbValues},
   Medium : {Null} \cup {Some(v) : v \in ProbValues},
   Low : {Null} \cup {Some(v) : v \in ProbValues}]

\* probabilities: the object or null
ProbabilityArgs == {Null} \cup {Some(o) : o \in ProbabilityObjects}

\* Class labels: the three of the model, an unknown one, the empty string
Labels == {"High", "Medium", "Low", "Unknown", ""}

\* Sweetness scores the four classifiers are swept over
Scores == 0..100

\* Bodies of a 2xx /predict response, with every probabilities object
ScorePayloads ==
  [is_pineapple : BOOLEAN,
   detection_confidence : {90},
   detections : {<<>>},
   prediction : {Some("High"), Some("Low")},
   confidence : {Some(87)},
   probabilities : ProbabilityArgs]

ScoreInputs ==
  {[kind |-> "convert", prediction |-> l, probabilities |-> q] :
     l \in Labels, q \in ProbabilityArgs}
  \cup {[kind |-> "transform", data |-> d] : d \in ScorePayloads}
  \cup {[kind |-> "score", sweetness |-> n] : n \in Scores}

InitScore ==
  /\ config = DEFAULT_CONFIG
  /\ defaults = DEFAULT_CONFIG
  /\ aliased = TRUE
  /\ isInitialized = FALSE
  /\ storage = Null
  /\ configBefore = DEFAULT_CONFIG
  /\ InitApp
  /\ InitCall
  /\ calls = <<>>
  /\ returned = Null
  /\ lastOp = [op |-> "none"]
  /\ input \in ScoreInputs
  /\ result = Null

\* what applying a pure function leaves alone
scoreFrame ==
  <<svc, pc, loopv, sent, pre, wu, fin, configBefore, calls, returned, lastOp, input, app>>

\* convertClassToSweetness(prediction, probabilities)
ApplyConvert ==
  /\ input.kind = "convert"
  /\ result = Null
  /\ result' = Some(convertClassToSweetness(input.prediction, input.probabilities))
  /\ UNCHANGED scoreFrame

\* transformBackendResponse(data, processingTime)
ApplyTransform ==
  /\ input.kind = "transform"
  /\ result = Null
  /\ result' = Some(transformBackendResponse(input.data, 0))
  /\ UNCHANGED scoreFrame

\* getSweetnessCategory, getDisplayTitle, getColorIndicator, getRecommendation
ApplyClassify ==
  /\ input.kind = "score"
  /\ result = Null
  /\ result' = Some([category |-> getSweetnessCategory(input.sweetness),
                     displayTitle |-> getDisplayTitle(input.sweetness),
                     colorIndicator |-> getColorIndicator(input.sweetness),
                     recommendation |-> getRecommendation(input.sweetness)])
  /\ UNCHANGED scoreFrame

NextScore ==
  \/ ApplyConvert
  \/ ApplyTransform
  \/ ApplyClassify

SpecScore == InitScore /\ [][NextScore]_vars


(***************************************************************************)
(* updateConfig and getConfig.  A caller updates the configuration with a  *)
(* partial configuration, reads it, and may write to the object it read.   *)
(***************************************************************************)
\* Base URLs: the deployed one and the local development server
BaseUrls == {BASE_URL, "http://192.168.0.128:8000"}

\* Timeouts a caller sets: the default and the one of the repository's test
ConfigTimeouts == {30000, 60000}

\* Partial<ApiConfig>: each field supplied or not
PartialConfigs ==
  [baseUrl : {Null} \cup {Some(u) : u \in BaseUrls},
   timeout : {Null} \cup {Some(t) : t \in ConfigTimeouts}]

\* { ...base, ...partial }; the variant spreads onto DEFAULT_CONFIG instead
SpreadOntoDefaults(base, partial) ==
  [baseUrl |-> IF IsNull(partial.baseUrl) THEN DEFAULT_CONFIG.baseUrl ELSE Val(partial.baseUrl),
   timeout |-> IF IsNull(partial.timeout) THEN DEFAULT_CONFIG.timeout ELSE Val(partial.timeout)]
Spread(base, partial) ==
  [baseUrl |-> IF IsNull(partial.baseUrl) THEN base.baseUrl ELSE Val(partial.baseUrl),
   timeout |-> IF IsNull(partial.timeout) THEN base.timeout ELSE Val(partial.timeout)]

\* getConfig(): a new object with the fields of this.config (same: the
\* returned object is this.config itself)
getConfig == [obj |-> config, same |-> FALSE]

InitConfig ==
  /\ config = DEFAULT_CONFIG
  /\ defaults = DEFAULT_CONFIG
  /\ aliased = TRUE
  /\ isInitialized = TRUE
  /\ storage = Null
  /\ configBefore = DEFAULT_CONFIG
  /\ InitApp
  /\ InitCall
  /\ calls = <<>>
  /\ returned = Null
  /\ lastOp = [op |-> "none"]
  /\ input = [kind |-> "none"]
  /\ result = Null

\* what the configuration operations leave alone
configFrame ==
  <<isInitialized, pc, loopv, sent, pre, wu, fin, configBefore, calls, input, result, app>>

\* updateConfig(newConfig): this.config becomes a new object, which is then
\* saved; a failing save is logged and dropped
UpdateConfig(newConfig, saveOk) ==
  /\ config' = Spread(config, newConfig)
  /\ aliased' = FALSE
  /\ storage' = IF saveOk THEN Some(config') ELSE storage
  /\ returned' = IF IsNull(returned) THEN Null ELSE Some([Val(returned) EXCEPT !.same = FALSE])
  /\ lastOp' = [op |-> "updateConfig", arg |-> newConfig, before |-> config, saved |-> saveOk]
  /\ UNCHANGED <<defaults, configFrame>>

\* getConfig() is called and the caller keeps the object
GetConfig ==
  /\ returned' = Some(getConfig)
  /\ lastOp' = [op |-> "getConfig", before |-> config]
  /\ UNCHANGED <<config, defaults, aliased, storage, configFrame>>

\* The caller assigns to the timeout field of the object it got
MutateReturned(t) ==
  /\ ~IsNull(returned)
  /\ Val(returned).obj.timeout # t
  /\ returned' = Some([Val(returned) EXCEPT !.obj.timeout = t])
  /\ IF Val(returned).same
       THEN SetTimeout(t)
       ELSE UNCHANGED <<config, defaults>>
  /\ lastOp' = [op |-> "mutate", before |-> config]
  /\ UNCHANGED <<aliased, storage, configFrame>>

NextConfig ==
  \/ \E newConfig \in PartialConfigs, saveOk \in BOOLEAN : UpdateConfig(newConfig, saveOk)
  \/ GetConfig
  \/ \E t \in ConfigTimeouts : MutateReturned(t)

SpecConfig == InitConfig /\ [][NextConfig]_vars


(***************************************************************************)
(* HybridAnalysisService.analyzePineapple (src/services/databaseService.ts)*)
(* on top of apiService.analyzePineapple, as modelled above, and of        *)
(* localAnalysisService.analyzePineapple.                                  *)
(***************************************************************************)
\* What localAnalysisService.analyzePineapple resolves with: a mock analysis
\* or, from its own catch, an error result
LocalResults ==
  {[isPineapple |-> FALSE, detectionConfidence |-> 30, sweetness |-> Null,
    status |-> "no_pineapple",
    message |-> Msg("No pineapple detected in the image", "", 0), processingTime |-> 1000],
   [isPineapple |-> FALSE, detectionConfidence |-> 0, sweetness |-> Null,
    status |-> "error",
    message |-> Msg("Local analysis failed", "", 0), processingTime |-> 1000]}

\* Date.now() - startTime when the hybrid call returns, in ms
HybridTimes == {1500, 45000}

\* { ...result, source, processingTime }
HybridResult(r, source, processingTime) ==
  [isPineapple |-> r.isPineapple,
   detectionConfidence |-> r.detectionConfidence,
   sweetness |-> r.sweetness,
   status |-> r.status,
   message |-> r.message,
   processingTime |-> processingTime,
   source |-> source]

\* The error result built by the outer catch block
HybridError(text, processingTime) ==
  [isPineapple |-> FALSE,
   detectionConfidence |-> 0,
   sweetness |-> Null,
   status |-> "error",
   message |-> Msg(text, "", 0),
   processingTime |-> processingTime,
   source |-> "local"]

\* catch (backendError): taken when the awaited backend promise rejects
BackendFailed(b) == b.settled = "rejected"

InitHybrid ==
  /\ config = DEFAULT_CONFIG
  /\ defaults = DEFAULT_CONFIG
  /\ aliased = TRUE
  /\ isInitialized = FALSE
  /\ storage \in {Null} \cup {Some([baseUrl |-> BASE_URL, timeout |-> t]) : t \in SavedTimeouts}
  /\ configBefore = DEFAULT_CONFIG
  /\ InitCall
  /\ calls = <<>>
  /\ returned = Null
  /\ lastOp = [op |-> "none"]
  /\ input = [kind |-> "none"]
  /\ result = Null
  /\ hybrid = [isInitialized |-> FALSE, pc |-> "idle", backendResult |-> Null,
               localCalls |-> 0, result |-> Null]
  /\ uploader = [isBackendReady |-> FALSE, mount |-> "off", pc |-> "off",
                 closure |-> FALSE, reconnected |-> Null, analyzed |-> FALSE,
                 result |-> Null, alert |-> Null]

\* what the steps of the hybrid call itself leave alone
hybridFrame ==
  <<pc, loopv, sent, pre, wu, fin, configBefore,
    calls, returned, lastOp, input, result, uploader>>

\* analyzePineapple is called
HybridStart ==
  /\ hybrid.pc = "idle"
  /\ hybrid' = [hybrid EXCEPT !.pc = IF hybrid.isInitialized THEN "backend" ELSE "initialize"]
  /\ UNCHANGED <<svc, hybridFrame>>

\* this.initialize() settles: apiService.initialize() has run and never
\* rejects, localAnalysisService.initialize() rejects when the database
\* cannot be opened, and the outer catch then returns an error result
HybridInitialized(readOk, localOk, t) ==
  /\ hybrid.pc = "initialize"
  /\ config' = ConfigAfterInitialize(readOk)
  /\ aliased' = AliasedAfterInitialize(readOk)
  /\ isInitialized' = TRUE
  /\ hybrid' = IF localOk
                 THEN [hybrid EXCEPT !.isInitialized = TRUE, !.pc = "backend"]
                 ELSE [hybrid EXCEPT !.pc = "done",
                                     !.result = Some(HybridError("Analysis service initialization failed", t))]
  /\ UNCHANGED <<defaults, storage, hybridFrame>>

\* apiService.analyzePineapple(imageUri) is called and awaited
HybridCallBackend ==
  /\ hybrid.pc = "backend"
  /\ StartAnalyze

\* The backend call runs
HybridBackend ==
  /\ hybrid.pc = "backend"
  /\ Respond

\* The call resumes after the await: the result is returned with source
\* 'backend', or the catch falls back to the local analysis
HybridResume(l, t) ==
  /\ hybrid.pc = "backend"
  /\ pc = "done"
  /\ LET b == [settled |-> settled, outcome |-> outcome] IN
       hybrid' = IF BackendFailed(b)
                   THEN [hybrid EXCEPT !.pc = "done",
                                       !.backendResult = Some(b),
                                       !.localCalls = @ + 1,
                                       !.result = Some(HybridResult(l, "local", t))]
                   ELSE [hybrid EXCEPT !.pc = "done",
                                       !.backendResult = Some(b),
                                       !.result = Some(HybridResult(Val(b.outcome), "backend", t))]
  /\ UNCHANGED <<svc, hybridFrame>>

NextHybrid ==
  \/ HybridStart
  \/ \E readOk \in BOOLEAN, localOk \in BOOLEAN, t \in HybridTimes :
       HybridInitialized(readOk, localOk, t)
  \/ HybridCallBackend
  \/ HybridBackend
  \/ \E l \in LocalResults, t \in HybridTimes : HybridResume(l, t)

SpecHybrid == InitHybrid /\ [][NextHybrid]_vars


(***************************************************************************)
(* PineappleUploader (src/unnamed/part_009): the component's state, the    *)
(* initializeBackend() started on mount, and taps on Analyze.  A handler   *)
(* reads the isBackendReady of the render it was created in.               *)
(***************************************************************************)
\* Runs of initializeBackend: the one started on mount, the one of a tap
Runs == {1, 2}

\* status of what apiService.analyzePineapple resolves with
AnalysisStatuses == {"success", "no_pineapple", "error"}

\* Where run c of initializeBackend is
RunPc(c) == IF c = 1 THEN uploader.mount ELSE uploader.pc
SetRun(u, c, p) == IF c = 1 THEN [u EXCEPT !.mount = p] ELSE [u EXCEPT !.pc = p]

\* The second 'if (!isBackendReady)' of analyzePineappleImage reads the
\* constant of the render the handler was created in, not the state that
\* setIsBackendReady(success) has just set
isBackendReadyRead(u, success) == u.closure

InitUploader ==
  /\ config = DEFAULT_CONFIG
  /\ defaults = DEFAULT_CONFIG
  /\ aliased = TRUE
  /\ isInitialized = FALSE
  /\ storage \in {Null} \cup {Some([baseUrl |-> BASE_URL, timeout |-> t]) : t \in SavedTimeouts}
  /\ configBefore = DEFAULT_CONFIG
  /\ InitCall
  /\ calls = [c \in Runs |-> Frame("checkHealth", "off", 0, 0, "")]
  /\ returned = Null
  /\ lastOp = [op |-> "none"]
  /\ input = [kind |-> "none"]
  /\ result = Null
  /\ hybrid = [isInitialized |-> FALSE, pc |-> "off", backendResult |-> Null,
               localCalls |-> 0, result |-> Null]
  /\ uploader = [isBackendReady |-> FALSE, mount |-> "initialize", pc |-> "idle",
                 closure |-> FALSE, reconnected |-> Null, analyzed |-> FALSE,
                 result |-> Null, alert |-> Null]

\* what the steps of the component leave alone
uploaderFrame ==
  <<pc, loopv, sent, pre, wu, fin, configBefore, returned, lastOp, input, result, hybrid>>

\* apiService.initialize() of run c settles, and testConnection() calls checkHealth
UploaderInitialized(c, readOk) ==
  /\ RunPc(c) = "initialize"
  /\ config' = ConfigAfterInitialize(readOk)
  /\ aliased' = AliasedAfterInitialize(readOk)
  /\ isInitialized' = TRUE
  /\ calls' = [calls EXCEPT ![c] = Frame("checkHealth", "idle", 0, 0, "")]
  /\ uploader' = SetRun(uploader, c, "testing")
  /\ UNCHANGED <<defaults, storage, uploaderFrame>>

\* testConnection() of run c settles: setIsBackendReady(connectionTest.success);
\* for the run of a tap, analyzePineappleImage resumes with its second test
initializeBackend(c) ==
  /\ RunPc(c) = "testing"
  /\ calls[c].pc = "done"
  /\ LET success == calls[c].how = "ok"
         u == [uploader EXCEPT !.isBackendReady = success]
     IN uploader' =
          IF c = 1
            THEN [u EXCEPT !.mount = "done"]
          ELSE IF ~isBackendReadyRead(uploader, success)
            THEN [u EXCEPT !.pc = "idle",
                           !.reconnected = Some(success),
                           !.alert = Some("Server is not available. Please check that the server is running.")]
            ELSE [u EXCEPT !.pc = "analyzing",
                           !.reconnected = Some(success),
                           !.analyzed = TRUE]
  /\ UNCHANGED <<svc, calls, uploaderFrame>>

\* A tap on Analyze: analyzeImage calls analyzePineappleImage(image)
analyzePineappleImage ==
  /\ uploader.pc = "idle"
  /\ uploader' =
       IF uploader.isBackendReady
         THEN [uploader EXCEPT !.closure = TRUE, !.pc = "analyzing", !.analyzed = TRUE,
                               !.reconnected = Null, !.alert = Null]
         ELSE [uploader EXCEPT !.closure = FALSE, !.pc = "initialize", !.analyzed = FALSE,
                               !.reconnected = Null, !.alert = Null]
  /\ UNCHANGED <<svc, calls, uploaderFrame>>

\* apiService.analyzePineapple(imageUri) resolves, and setResult shows it
UploaderAnalyzed(status) ==
  /\ uploader.pc = "analyzing"
  /\ uploader' = [uploader EXCEPT !.pc = "idle", !.result = Some(status)]
  /\ UNCHANGED <<svc, calls, uploaderFrame>>

NextUploader ==
  \/ \E c \in Runs, readOk \in BOOLEAN : UploaderInitialized(c, readOk)
  \/ \E c \in Runs : OvStartHealth(c)
  \/ \E c \in Runs, r \in FetchResults : OvHealthDone(c, r)
  \/ \E c \in Runs, parsed \in BOOLEAN : OvHealthJsonDone(c, parsed)
  \/ \E c \in Runs : initializeBackend(c)
  \/ analyzePineappleImage
  \/ \E status \in AnalysisStatuses : UploaderAnalyzed(status)

SpecUploader == InitUploader /\ [][NextUploader]_vars


(***************************************************************************)
(* Properties                                                              *)
(***************************************************************************)
Done == pc = "done"

\* The k-th POST /predict of the retry loop was answered with status s
Answered(k, s) ==
  k <= Len(respHist) /\ respHist[k].kind = "response" /\ respHist[k].status = s

\* ... with a 2xx status
AnsweredOk(k) ==
  /\ k <= Len(respHist)
  /\ respHist[k].kind = "response"
  /\ respHist[k].status >= 200 /\ respHist[k].status <= 299

\* ... with 500 or 502
AnsweredTransient(k) == Answered(k, 500) \/ Answered(k, 502)

\* response.json() gave a payload
ParsedObject == ~IsNull(body) /\ Val(body).kind = "object"

\* The invocation obtained no payload: the connectivity check failed, the
\* loop ended without a 2xx response, or the 2xx body did not parse to an object.
FailurePath == Done /\ ~ParsedObject

\* C1: analyzePineapple never rejects.  Whatever the health check, the probe,
\* the warm-up, the POSTs, the body and the database save do, the promise is
\* never rejected; once the invocation is over it is resolved with an outcome
\* whose status is success, no_pineapple or error; and every failure path
\* gives status error with a non-empty message.
C1_NeverRejects ==
  /\ settled # "rejected"
  /\ Done => /\ settled = "resolved"
             /\ ~IsNull(outcome)
             /\ Val(outcome).status \in {"success", "no_pineapple", "error"}
  /\ FailurePath => /\ Val(outcome).status = "error"
                    /\ Val(outcome).message.text # ""

\* C1 witness: a 2xx response whose body is no JSON ended in an error outcome
C1_Witness ==
  /\ Done
  /\ ~IsNull(body) /\ Val(body).kind = "unparsable"
  /\ settled = "resolved"
  /\ Val(outcome).status = "error"

\* C2: for every outcome built (by the transform or by the outer catch),
\* status is success if and only if the sweetness field is non-null.
C2_SuccessIffSweetness ==
  ~IsNull(outcome) =>
    (Val(outcome).status = "success" <=> ~IsNull(Val(outcome).sweetness))

\* C3: when the 2xx body reports is_pineapple = true but the class or the
\* sweetness confidence is null, the outcome has status error and no sweetness.
C3_DegenerateIsError ==
  (/\ ParsedObject
   /\ ~IsNull(outcome)
   /\ Val(Val(body).data).is_pineapple
   /\ \/ IsNull(Val(Val(body).data).prediction)
      \/ IsNull(Val(Val(body).data).confidence))
  => /\ Val(outcome).status = "error"
     /\ IsNull(Val(outcome).sweetness)

\* C4: the retry loop issues at most MAX_RETRIES POST /predict requests in
\* one invocation.
C4_AtMostMaxRetriesPosts ==
  /\ predictPosts <= MAX_RETRIES
  /\ Len(respHist) <= MAX_RETRIES

\* C4 witness: an invocation that used all MAX_RETRIES attempts and is over
C4_Witness ==
  /\ Done
  /\ predictPosts = MAX_RETRIES
  /\ Len(respHist) = MAX_RETRIES

\* C5: if the first k POSTs (k < MAX_RETRIES) are answered 500 or 502 and the
\* next one 2xx, exactly k+1 POSTs are ever issued and the outcome is the
\* transform of the 2xx body; 502 four times and then 200 with a pineapple,
\* its class and its confidence gives status success.
C5_RetryThenSuccess ==
  /\ \A k \in 0..(MAX_RETRIES - 1) :
       ((\A i \in 1..k : AnsweredTransient(i)) /\ AnsweredOk(k + 1))
       => /\ Len(respHist) = k + 1
          /\ predictPosts = k + 1
          /\ pc \in {"parse", "save", "done"}
          /\ (Done /\ ParsedObject)
               => outcome = Some(transformBackendResponse(Val(Val(body).data), 0))
  /\ (/\ Done
      /\ (\A i \in 1..(MAX_RETRIES - 1) : Answered(i, 502))
      /\ Answered(MAX_RETRIES, 200)
      /\ ParsedObject
      /\ Val(Val(body).data).is_pineapple
      /\ ~IsNull(Val(Val(body).data).prediction)
      /\ ~IsNull(Val(Val(body).data).confidence))
     => Val(outcome).status = "success"

\* C5 witness: 502 on attempts 1-4, 200 on attempt 5, outcome success
C5_Witness ==
  /\ Done
  /\ \A i \in 1..(MAX_RETRIES - 1) : Answered(i, 502)
  /\ Answered(MAX_RETRIES, 200)
  /\ predictPosts = MAX_RETRIES
  /\ Val(outcome).status = "success"
  /\ ~IsNull(Val(outcome).sweetness)

\* C6: when all MAX_RETRIES POSTs are answered 502, the outcome has status
\* error and its message is the one of the all-attempts-exhausted path.
C6_ExhaustedMessage ==
  (Done /\ \A i \in 1..MAX_RETRIES : Answered(i, 502))
  => /\ Val(outcome).status = "error"
     /\ Val(outcome).message.inner = ExhaustedError.message.text

\* The HTTP status an error message stands for: the dedicated texts of 400,
\* 413, 415 and 500, the number spliced into the generic text, 0 for none.
StatusCarried(m) ==
  CASE m.text = "Invalid request. Please check your image and try again." -> 400
    [] m.text = "Image file is too large. Please use an image smaller than 10MB." -> 413
    [] m.text = "Unsupported image format. Please use JPG, PNG, or WebP." -> 415
    [] m.text = "Server error occurred during analysis. Please try again." -> 500
    [] m.text = "Server error (${statusCode}): ${message}" -> m.num
    [] OTHER -> 0

\* The k-th POST was answered with a non-2xx status other than 500 and 502
AnsweredFatal(k) ==
  /\ k <= Len(respHist)
  /\ respHist[k].kind = "response"
  /\ ~(respHist[k].status >= 200 /\ respHist[k].status <= 299)
  /\ respHist[k].status \notin {500, 502}

\* C7: a non-2xx status other than 500 and 502, on any attempt, is the last
\* POST of the invocation, which ends with an error outcome of a BackendError
\* carrying that status.
C7_FatalStatusStops ==
  \A k \in 1..Len(respHist) :
    AnsweredFatal(k)
    => /\ Len(respHist) = k
       /\ predictPosts = k
       /\ Done
       /\ Val(outcome).status = "error"
       /\ lastError = Some(BackendError(Msg("Backend error: ${statusText}", "", 0),
                                        respHist[k].status))
       /\ StatusCarried(Val(outcome).message) = respHist[k].status

\* C7 witness: 404 on the second attempt ended the invocation
C7_Witness ==
  /\ Done
  /\ Answered(1, 502)
  /\ Answered(2, 404)
  /\ Len(respHist) = 2
  /\ Val(outcome).status = "error"

\* The k-th POST ended with fetch throwing error e
Threw(k, e) ==
  k <= Len(respHist) /\ respHist[k].kind = "throw" /\ respHist[k].err = e

\* After attempt k the loop slept the progressive delay and went on
Retried(k) ==
  /\ Len(slept) >= k
  /\ slept[k] = RetryDelay(k)
  /\ \/ pc = "sleep" /\ Len(respHist) = k
     \/ predictPosts > k
     \/ pc = "mr_init"

\* Attempt k ended the invocation with an error outcome
Ended(k) ==
  /\ Len(respHist) = k
  /\ predictPosts = k
  /\ Done
  /\ Val(outcome).status = "error"

\* C8: before the last attempt, a timeout/abort or a generic network failure
\* thrown by fetch is retried exactly as a 500/502 is; any other thrown error
\* ends the invocation with an error outcome.
C8_RetryableThrows ==
  \A k \in 1..Len(respHist) :
    /\ (k < MAX_RETRIES /\ (Threw(k, AbortErr) \/ Threw(k, NetFailErr))) => Retried(k)
    /\ (Threw(k, OtherErr) \/ Threw(k, EmptyErr)) => Ended(k)

\* What fetch gave to checkNetworkConnectivity is a failure
ConnectivityFailed ==
  /\ ~IsNull(connectivity)
  /\ \/ Val(connectivity).kind = "throw"
     \/ ~(Val(connectivity).status >= 200 /\ Val(connectivity).status <= 299)

\* C9: when the initial connectivity check fails (thrown error, timeout or
\* non-2xx status), the invocation is over with an error outcome: the probe
\* and the warm-up did not run and no POST /predict was issued.
C9_ConnectivityFailureStops ==
  ConnectivityFailed
  => /\ Done
     /\ Val(outcome).status = "error"
     /\ IsNull(isConnected)
     /\ warmups = 0
     /\ warmupPosts = 0
     /\ predictPosts = 0

\* C9 witness: the connectivity check timed out and the invocation is over
C9_Witness ==
  /\ connectivity = Some(Thrown(AbortErr))
  /\ Done
  /\ Val(outcome).status = "error"
  /\ predictPosts = 0

\* C10: the timeout the abort timer of attempt k is armed with is
\* min(30000 + 15000*k, 120000): non-decreasing in k and at most UPLOAD_TIMEOUT.
C10_ProgressiveArmedTimeout ==
  \A k \in 1..Len(armed) :
    /\ armed[k] = Min(30000 + 15000 * k, 120000)
    /\ armed[k] <= UPLOAD_TIMEOUT
    /\ k > 1 => armed[k - 1] <= armed[k]

\* C11: when a single analyzePineapple invocation is over, whatever its
\* outcome, the shared configuration is what it was when the invocation
\* started: config.timeout and config.baseUrl are unchanged.
C11_ConfigUnchanged ==
  Done => /\ config.timeout = configBefore.timeout
          /\ config.baseUrl = configBefore.baseUrl

\* Every overlapping call has returned
AllReturned == calls # <<>> /\ \A c \in DOMAIN calls : calls[c].pc = "done"

\* C12: for every interleaving of two analyzePineapple calls, or of an
\* analyzePineapple call and a checkHealth call, once all calls have returned
\* config.timeout is what it was before the first call started.
C12_OverlapRestoresTimeout ==
  AllReturned => config.timeout = configBefore.timeout

\* The invocation is over with a terminal outcome
Terminal ==
  /\ Done
  /\ settled = "resolved"
  /\ ~IsNull(outcome)
  /\ Val(outcome).status \in {"success", "no_pineapple", "error"}

\* C13: every analyzePineapple invocation that has started eventually reaches
\* a terminal outcome, every awaited call settling and every sleep ending:
\* the warm-up loop and the retry loop terminate whatever the server answers.
C13_Terminates == (pc # "idle") ~> Terminal

\* C13 witness: the warm-up polled until its deadline without passing a gate,
\* the retry loop used all its attempts, and the invocation is over
C13_Witness ==
  /\ Terminal
  /\ warmedUp = Some(FALSE)
  /\ Len(respHist) = MAX_RETRIES

\* transformBackendResponse was applied and gave a sweetness assessment
Assessed ==
  /\ input.kind = "transform"
  /\ ~IsNull(result)
  /\ ~IsNull(Val(result).sweetness)

\* The sweetness assessment of the transformed response
Assessment == Val(Val(result).sweetness)

\* C14: for every backend response that yields a sweetness assessment, each
\* class probability being in [0,1] (their sum unconstrained), the sweetness
\* score is an integer in [0,100].
C14_ScoreInRange ==
  Assessed => Assessment.sweetness \in 0..100

\* convertClassToSweetness was applied
Converted == input.kind = "convert" /\ ~IsNull(result)

\* A probability that is present, or 0
Given(o) == IF o = <<>> THEN 0 ELSE o[1]

\* The three classes are present and their probabilities sum to 1
SumsToOne(q) ==
  /\ q.High # <<>> /\ q.Medium # <<>> /\ q.Low # <<>>
  /\ q.High[1] + q.Medium[1] + q.Low[1] = 100

\* C15: for every probability triple (High, Medium, Low) with each value in
\* [0,1] and summing to 1, convertClassToSweetness returns a value in [25,95].
C15_ConvexRange ==
  (/\ Converted
   /\ input.probabilities # <<>>
   /\ SumsToOne(input.probabilities[1]))
  => (Val(result) >= 25 /\ Val(result) <= 95)

\* C15 witness: the two extremes, all the mass on Low and all of it on High
C15_Witness ==
  /\ Converted
  /\ \/ /\ input.probabilities = Some([High |-> Some(0), Medium |-> Some(0), Low |-> Some(100)])
        /\ result = Some(25)
     \/ /\ input.probabilities = Some([High |-> Some(100), Medium |-> Some(0), Low |-> Some(0)])
        /\ result = Some(95)

\* C16: with a probabilities object, convertClassToSweetness returns
\* round(95*P(High) + 65*P(Medium) + 25*P(Low)), a missing class counting as
\* 0 and the class label being ignored; without one it returns the lookup
\* High -> 85, Medium -> 65, Low -> 35, anything else -> 50.
C16_WeightedOrLookup ==
  Converted =>
    Val(result) =
      IF input.probabilities # <<>>
        THEN LET q == input.probabilities[1]
             IN (95 * Given(q.High) + 65 * Given(q.Medium) + 25 * Given(q.Low) + 50) \div 100
        ELSE CASE input.prediction = "High" -> 85
               [] input.prediction = "Medium" -> 65
               [] input.prediction = "Low" -> 35
               [] OTHER -> 50

\* C16 witness: an empty probabilities object gives 0 although the label is High
C16_Witness ==
  /\ Converted
  /\ input.prediction = "High"
  /\ input.probabilities = Some([High |-> Null, Medium |-> Null, Low |-> Null])
  /\ result = Some(0)

\* The four classifiers were applied to a score
Classified == input.kind = "score" /\ ~IsNull(result)

\* C17: for every integer score in 0..100 each of the four classifiers
\* returns exactly one of its four values, chosen by the documented cut
\* points: the category at 80/60/40, the display title, the colour and the
\* recommendation at 75/60/45.
C17_ClassifiersTotal ==
  Classified =>
    LET n == input.sweetness
        band == IF n >= 75 THEN 1 ELSE IF n >= 60 THEN 2 ELSE IF n >= 45 THEN 3 ELSE 4
    IN /\ Val(result).category =
            (IF n >= 80 THEN "High Sweetness"
             ELSE IF n >= 60 THEN "Medium Sweetness"
             ELSE IF n >= 40 THEN "Low Sweetness"
             ELSE "Very Low Sweetness")
       /\ Val(result).displayTitle = <<"High", "Medium", "Low", "Very Low">>[band]
       /\ Val(result).colorIndicator = <<"#22C55E", "#3B82F6", "#F59E0B", "#6B7280">>[band]
       /\ Val(result).recommendation =
            <<"Perfect for eating", "Great for most uses", "Best for cooking", "Wait a few days">>[band]

\* C17 witness: between the cut points 40 and 45 the category is Low
\* Sweetness while the display title is Very Low
C17_Witness ==
  /\ Classified
  /\ input.sweetness = 42
  /\ Val(result).category = "Low Sweetness"
  /\ Val(result).displayTitle = "Very Low"

\* The probabilities of the transformed response are dominated by Low
LowDominated ==
  /\ input.data.probabilities # <<>>
  /\ Given(input.data.probabilities[1].Low) > Given(input.data.probabilities[1].High)
  /\ Given(input.data.probabilities[1].Low) > Given(input.data.probabilities[1].Medium)

\* C18: a pineapple response whose probabilities are dominated by Low, so
\* that the score is below 40 (Low = 1 giving 25; High 0.05, Medium 0.20,
\* Low 0.75 giving 37), is presented with category Low Sweetness, display
\* title Low and the amber colour.
C18_LowDominatedIsLow ==
  (Assessed /\ LowDominated /\ Assessment.sweetness < 40)
  => /\ Assessment.category = "Low Sweetness"
     /\ Assessment.displayTitle = "Low"
     /\ Assessment.colorIndicator = "#F59E0B"

\* The documented example: High 0.70, Medium 0.25, Low 0.05
ExampleProbabilities == Some([High |-> Some(70), Medium |-> Some(25), Low |-> Some(5)])

\* C19: for a pineapple response with probabilities High 0.70, Medium 0.25,
\* Low 0.05 the transform yields score 84, category High Sweetness, display
\* title High and ripeness Ready.
C19_DocumentedExample ==
  (/\ input.kind = "transform"
   /\ ~IsNull(result)
   /\ input.data.is_pineapple
   /\ input.data.probabilities = ExampleProbabilities)
  => /\ ~IsNull(Val(result).sweetness)
     /\ Assessment.sweetness = 84
     /\ Assessment.category = "High Sweetness"
     /\ Assessment.displayTitle = "High"
     /\ Assessment.qualityMetrics.ripeness = "Ready"

\* C19 witness: the example was transformed, for a response labelled Low
C19_Witness ==
  /\ Assessed
  /\ input.data.prediction = Some("Low")
  /\ input.data.probabilities = ExampleProbabilities
  /\ Assessment.sweetness = 84

\* The last operation was updateConfig({timeout: t})
UpdatedTimeoutOnly ==
  /\ lastOp.op = "updateConfig"
  /\ lastOp.arg.baseUrl = <<>>
  /\ lastOp.arg.timeout # <<>>

\* C20: updateConfig with a partial configuration changes only the supplied
\* fields: after updateConfig({timeout: t}) the configuration getConfig reads
\* has timeout t and the base URL it had before, whether or not the save to
\* storage succeeded; and getConfig returns a copy, so that writing to the
\* returned object leaves the configuration of the service as it was.
C20_UpdateConfigPartial ==
  /\ UpdatedTimeoutOnly
       => /\ getConfig.obj.timeout = lastOp.arg.timeout[1]
          /\ getConfig.obj.baseUrl = lastOp.before.baseUrl
  /\ lastOp.op = "getConfig" => Val(returned).obj = config
  /\ lastOp.op = "mutate" => config = lastOp.before

\* C20 witness: the timeout of a configuration with the local base URL was
\* updated while the save failed
C20_Witness ==
  /\ UpdatedTimeoutOnly
  /\ ~lastOp.saved
  /\ lastOp.before.baseUrl # BASE_URL
  /\ lastOp.before.timeout # config.timeout
  /\ config.baseUrl = lastOp.before.baseUrl
  /\ storage # Some(config)

\* The connectivity check of the invocation has passed
ConnectivityPassed ==
  /\ ~IsNull(connectivity)
  /\ Val(connectivity).kind = "response"
  /\ Val(connectivity).status >= 200 /\ Val(connectivity).status <= 299

\* C21: once the connectivity check has passed, a POST /predict of the retry
\* loop is eventually issued, whatever the quick probe and the warm-up
\* report: a warm-up that returns false, or that ends at its deadline, is not
\* an error by itself.
C21_UploadAttempted == ConnectivityPassed ~> (predictPosts >= 1)

\* C21 witness: the warm-up ended at its deadline returning false, and the
\* upload was attempted
C21_Witness ==
  /\ ConnectivityPassed
  /\ warmedUp = Some(FALSE)
  /\ predictPosts >= 1

\* What the GET /health of the quick probe gave makes it report "not
\* connected": a throw or a timeout, 502, or another status of 500 or above
ProbeFails(r) ==
  \/ r.kind = "throw"
  \/ r.kind = "response" /\ (r.status = 502 \/ r.status >= 500)

\* C22: warmUpServer runs in an invocation if and only if the quick probe
\* reported "not connected", and the probe reports that exactly when its
\* GET /health throws or times out, returns 502 or returns another status of
\* 500 or above; a 2xx or any status below 500 counts as connected and the
\* warm-up is skipped.
C22_WarmUpIffProbeFails ==
  /\ [](warmups = (IF isConnected = Some(FALSE) THEN 1 ELSE 0))
  /\ [][\A r \in FetchResults :
          QuickProbe(r) => /\ isConnected' = Some(~ProbeFails(r))
                           /\ (warmups' = warmups + 1) <=> ProbeFails(r)
                           /\ (pc' \in {"predict", "mr_init"}) <=> ~ProbeFails(r)]_vars

\* C22 witness: the probe reported "not connected" and the warm-up is
\* running; its first request is in flight
C22_Witness ==
  /\ isConnected = Some(FALSE)
  /\ warmups = 1
  /\ pc = "wu_test"
  /\ predictPosts = 0

\* C23: when the synthetic POST /predict of the warm-up (gate c) is answered
\* 502, the warm-up takes the server as still cold and keeps polling: it does
\* not return in that iteration.
C23_ColdPredictKeepsPolling ==
  [][\A r \in FetchResults, d \in FetchDurations :
       (WuPredict(r, d) /\ r = Response(502))
       => (IsNull(warmedUp') /\ pc' = "wu_sleep")]_vars

\* C24: the three gates of the warm-up are passed in order and are sticky:
\* the health gate (b) is requested only once the connectivity gate (a) has
\* passed, the synthetic POST (c) only once (a) and (b) have passed, no gate
\* is requested once it has passed, and a gate that has passed stays passed.
C24_GatesOrderedSticky ==
  /\ [](/\ pc = "wu_test" => ~testPassed
        /\ pc = "wu_health" => (testPassed /\ ~healthPassed)
        /\ pc = "wu_predict" => (testPassed /\ healthPassed /\ ~predictionReady)
        /\ healthPassed => testPassed
        /\ (predictionReady \/ warmupPosts > 0) => (testPassed /\ healthPassed))
  /\ [][/\ testPassed => testPassed'
        /\ healthPassed => healthPassed'
        /\ predictionReady => predictionReady']_vars

\* C24 witness: gate (c) is requested in a later iteration of the warm-up,
\* (a) and (b) having passed
C24_Witness ==
  /\ pc = "wu_predict"
  /\ testPassed /\ healthPassed
  /\ elapsed >= 2 * checkInterval

\* The retry loop's k-th attempt failed in a way that is retried
RetryableFailure(k) ==
  /\ k <= Len(respHist)
  /\ ~AnsweredOk(k)
  /\ \/ AnsweredTransient(k)
     \/ respHist[k].kind = "throw"

\* C25: a delay is slept only between a retryable failure and the next
\* attempt, never after a 2xx response and never after the final attempt; the
\* delay slept after failed attempt k is min(RETRY_DELAY * k, MAX_RETRY_DELAY)
\* (2 s, 4 s, 6 s, 8 s), non-decreasing in k and at most MAX_RETRY_DELAY.
C25_RetryDelays ==
  /\ Len(slept) <= MAX_RETRIES - 1
  /\ Len(slept) <= Len(respHist)
  /\ Len(respHist) <= Len(slept) + 1
  /\ Done /\ Len(respHist) > 0 => Len(slept) = Len(respHist) - 1
  /\ pc = "sleep" <=> (Len(slept) = Len(respHist) /\ Len(slept) > 0 /\ predictPosts = Len(slept))
  /\ \A k \in 1..Len(slept) :
       /\ RetryableFailure(k)
       /\ k < MAX_RETRIES
       /\ slept[k] = Min(RETRY_DELAY * k, MAX_RETRY_DELAY)
       /\ slept[k] = <<2000, 4000, 6000, 8000>>[k]
       /\ slept[k] <= MAX_RETRY_DELAY
       /\ k > 1 => slept[k - 1] <= slept[k]

\* C25 witness: four delays were slept, between five attempts
C25_Witness ==
  /\ slept = <<2000, 4000, 6000, 8000>>
  /\ Len(respHist) = MAX_RETRIES
  /\ Done

\* C30: counting the synthetic request of the warm-up, an invocation sends at
\* most MAX_RETRIES + 1 POST requests to /predict: a warm-up sends at most
\* one synthetic POST, and none is sent when the quick probe succeeds.
C30_TotalPredictPosts ==
  /\ predictPosts + warmupPosts <= MAX_RETRIES + 1
  /\ warmups <= 1
  /\ warmupPosts <= warmups
  /\ isConnected = Some(TRUE) => warmupPosts = 0

\* C30 witness: one synthetic POST and MAX_RETRIES uploads
C30_Witness ==
  /\ warmupPosts = 1
  /\ predictPosts = MAX_RETRIES
  /\ Done

\* Save attempts so far: the settled ones and the one in flight
SaveAttempts == saveCalls + (IF pc = "save" THEN 1 ELSE 0)

\* C29: the local database save is attempted exactly once for each outcome
\* built from a 2xx /predict response and never for an error outcome; the
\* outcome returned is the one built, whether the save succeeds or fails; and
\* it is returned only once the save attempt has settled.
C29_SaveOncePerBuiltOutcome ==
  /\ SaveAttempts = (IF ParsedObject THEN 1 ELSE 0)
  /\ (~IsNull(outcome) /\ Val(outcome).status = "error") => SaveAttempts = 0
  /\ pc = "save" => (settled = "pending" /\ ParsedObject)
  /\ (Done /\ ParsedObject)
       => /\ saveCalls = 1
          /\ settled = "resolved"
          /\ outcome = Some(transformBackendResponse(Val(Val(body).data), 0))
          /\ Val(outcome).status \in {"success", "no_pineapple"}
  /\ (Done /\ ~ParsedObject) => (saveCalls = 0 /\ Val(outcome).status = "error")

\* C29 witness: a no_pineapple outcome was returned after its save settled
C29_Witness ==
  /\ Done
  /\ ParsedObject
  /\ saveCalls = 1
  /\ Val(outcome).status = "no_pineapple"

\* C27: checkHealth never throws: it returns the health payload when the
\* response is 2xx (and its body parses), and null for a non-2xx response, a
\* thrown network error or a timeout; and in every case, the first call on
\* an uninitialized service with a saved configuration included,
\* config.timeout after the call is what it was before the call.
C27_CheckHealthRestores ==
  /\ [](\A c \in DOMAIN calls :
          calls[c].pc = "done"
          => /\ calls[c].how \in {"ok", "null"}
             /\ config.timeout = configBefore.timeout)
  /\ [][\A c \in DOMAIN calls, r \in FetchResults :
          OvHealthDone(c, r)
          => IF r.kind = "response" /\ r.status >= 200 /\ r.status <= 299
               THEN calls'[c].pc = "health_json"
               ELSE calls'[c].pc = "done" /\ calls'[c].how = "null"]_vars
  /\ [][\A c \in DOMAIN calls, parsed \in BOOLEAN :
          OvHealthJsonDone(c, parsed)
          => /\ calls'[c].pc = "done"
             /\ calls'[c].how = (IF parsed THEN "ok" ELSE "null")]_vars

\* C27 witness: the first call on an uninitialized service loaded a saved
\* configuration with another timeout during the call, and returned the payload
C27_Witness ==
  /\ calls # <<>>
  /\ calls[1].kind = "checkHealth"
  /\ calls[1].pc = "done"
  /\ calls[1].how = "ok"
  /\ ~aliased
  /\ ~IsNull(storage)
  /\ Val(storage).timeout # config.timeout
  /\ defaults.timeout = TEST_TIMEOUT

\* C26: HybridAnalysisService.analyzePineapple falls back to the local
\* analysis whenever the backend analysis fails: the result then has source
\* 'local', and is an error only if the local analysis failed too.
BackendAnalysisFailed ==
  /\ ~IsNull(hybrid.backendResult)
  /\ \/ Val(hybrid.backendResult).settled = "rejected"
     \/ Val(Val(hybrid.backendResult).outcome).status = "error"

C26_FallsBackToLocal ==
  (hybrid.pc = "done" /\ BackendAnalysisFailed)
  => /\ hybrid.localCalls = 1
     /\ Val(hybrid.result).source = "local"

\* C28: when the backend is marked not ready and the reconnect triggered by a
\* tap on Analyze succeeds, that same tap goes on to
\* apiService.analyzePineapple instead of failing with 'Server is not
\* available'.
C28_ReconnectProceeds ==
  (uploader.reconnected = Some(TRUE))
  => (uploader.analyzed /\ IsNull(uploader.alert))

=============================================================================
